---- MODULE Spec2Model ----
(***************************************************************************)
(* Model of the scraper service: the URL normaliser, the per-URL strategy  *)
(* chain (Scraper._scrape_article), the fan-out of Scraper.scrape_url and   *)
(* Scraper.scrape_urls, and the Pipeline.process_urls stages that follow.  *)
(*                                                                         *)
(* A URL string is represented by the components urlparse splits it into;  *)
(* a body text is a sequence of characters.  Python's None is the record   *)
(* None.  Collaborators outside the repository (newspaper, trafilatura,    *)
(* goose, readability, playwright, the network) are nondeterministic.      *)
(***************************************************************************)
EXTENDS Integers, Sequences, FiniteSets, TLC

VARIABLES
    urls,        \* the batch handed to scrape_urls / process_urls
    playwright,  \* Scraper.playwright
    browser,     \* Scraper.browser
    proc,        \* the driver processes and browsers that are running
    caller,      \* the calls on the Scraper of the browser specification
    spc,         \* position of Scraper.scrape_urls
    seed,        \* one scrape_url task per seed of the batch
    job,         \* per seed, the _scrape_article calls it made, in call order
    articles,    \* list returned by scrape_urls (first component)
    errors,      \* list returned by scrape_urls (second component)
    ppc,         \* position of Pipeline.process_urls ("off": not in use)
    max_age_days,\* Pipeline.max_age_days
    store_in_db, \* Pipeline.store_in_db
    recent,      \* recent_articles of process_urls
    enriched,    \* enriched_articles of process_urls
    cursor,      \* index of the article the enrich / store loop is at
    log,         \* what the enrichers and store_article logged as errors
    call         \* frame of a call made directly: a function of app/utils,
                 \* the endpoint, close() or _scrape_article

vars == <<urls, playwright, browser, proc, caller, spc, seed, job, articles, errors,
          ppc, max_age_days, store_in_db, recent, enriched, cursor, log,
          call>>

scraperVars == <<playwright, browser, proc, caller, spc, seed, job, articles>>
pipeVars == <<ppc, max_age_days, store_in_db, recent, enriched, cursor, log>>

----------------------------------------------------------------------------
(* Bounds *)

MaxSeeds == 2        \* longest batch
MaxLinks == 2        \* most article links newspaper.build reports (Spec)
MaxJobs == 2         \* most _scrape_article calls of one batch (Spec)
MaxFanLinks == 12    \* most article links newspaper.build reports (FanSpec)
MaxQuery == 3        \* most key=value pairs of a query string (UtilSpec)
MaxImages == 2       \* most image URLs a strategy reports (MediaSpec)
MaxNumber == 32      \* largest day or month number of a date string (UtilSpec)

----------------------------------------------------------------------------
(* Python values *)

None == [none |-> TRUE]

\* no function of app/utils is being called directly
NoCall == [fn |-> "none", pc |-> "idle"]

Min(a, b) == IF a < b THEN a ELSE b

Range(s) == {s[k] : k \in 1..Len(s)}

RECURSIVE Concat(_)
Concat(ss) == IF ss = <<>> THEN <<>> ELSE Head(ss) \o Concat(Tail(ss))

RECURSIVE SelectSeqBy(_, _)
SelectSeqBy(s, keep) ==
    IF s = <<>> THEN <<>>
    ELSE IF Head(s) \in keep THEN <<Head(s)>> \o SelectSeqBy(Tail(s), keep)
    ELSE SelectSeqBy(Tail(s), keep)

\* bool(x) of a str: the empty string is falsy
Truthy(text) == Len(text) > 0

IsSpace(ch) == ch \in {" ", "\n", "\t"}

RECURSIVE LStrip(_)
LStrip(text) ==
    IF text = <<>> THEN <<>>
    ELSE IF IsSpace(Head(text)) THEN LStrip(Tail(text)) ELSE text

RECURSIVE RStrip(_)
RStrip(text) ==
    IF text = <<>> THEN <<>>
    ELSE IF IsSpace(text[Len(text)]) THEN RStrip(SubSeq(text, 1, Len(text) - 1))
    ELSE text

\* str.strip()
Strip(text) == RStrip(LStrip(text))

----------------------------------------------------------------------------
(* app/utils/url_cleaners/normalizer.py *)

\* a URL string, by the components urlparse yields for it; malformed marks
\* a string on which urlparse raises ValueError (an unbalanced "[" host)
Url(scheme, netloc, path, query, fragment) ==
    [scheme |-> scheme, netloc |-> netloc, path |-> path, query |-> query,
     fragment |-> fragment, malformed |-> FALSE]

EmptyStr == Url("", "", <<>>, <<>>, "")

tracking_params ==
    <<"utm_source", "utm_medium", "utm_campaign", "utm_term", "utm_content",
      "fbclid", "gclid", "msclkid", "ref", "source", "referrer", "mc_cid",
      "mc_eid">>

\* urllib.parse.unquote_plus on the keys and values of the model
Unquote(v) ==
    IF v \in {"x%20y", "x+y"} THEN "x y"
    ELSE IF v = "utm%5Fsource" THEN "utm_source"
    ELSE v

\* urllib.parse.quote_plus on the keys and values of the model
QuotePlus(v) == IF v = "x y" THEN "x+y" ELSE v

\* dict insertion of parse_qs: a repeated key extends the list of its first
\* occurrence
DictAdd(d, k, v) ==
    IF \E n \in 1..Len(d) : d[n][1] = k
    THEN [n \in 1..Len(d) |->
             IF d[n][1] = k THEN <<k, Append(d[n][2], v)>> ELSE d[n]]
    ELSE Append(d, <<k, <<v>>>>)

\* urllib.parse.parse_qs with keep_blank_values=False: an insertion-ordered
\* dict key -> list of values, as a sequence of <<key, values>>
RECURSIVE ParseQsInto(_, _)
ParseQsInto(d, q) ==
    IF q = <<>> THEN d
    ELSE LET k == Unquote(Head(q)[1])
             v == Unquote(Head(q)[2])
         IN  IF v = "" THEN ParseQsInto(d, Tail(q))
             ELSE ParseQsInto(DictAdd(d, k, v), Tail(q))

parse_qs(q) == ParseQsInto(<<>>, q)

\* the loop "for param in tracking_params: del query_params[param]"
DelTracking(d) ==
    LET keep == {e \in Range(d) : e[1] \notin Range(tracking_params)}
    IN  SelectSeqBy(d, keep)

\* urlencode that walks the dict from its last key to its first
urlencode_Reversed(d) ==
    Concat([m \in 1..Len(d) |->
               LET k == d[Len(d) + 1 - m][1]
                   vs == d[Len(d) + 1 - m][2]
               IN  [n \in 1..Len(vs) |-> <<QuotePlus(k), QuotePlus(vs[n])>>]])

\* urllib.parse.urlencode(d, doseq=True): one key=value per value, the keys in
\* dict order
RECURSIVE urlencode(_)
urlencode(d) ==
    IF d = <<>> THEN <<>>
    ELSE LET k == Head(d)[1]
             vs == Head(d)[2]
         IN  [n \in 1..Len(vs) |-> <<QuotePlus(k), QuotePlus(vs[n])>>]
             \o urlencode(Tail(d))

normalize_url(url) ==
    IF url = None \/ url = EmptyStr THEN None
    ELSE IF url.malformed THEN url
    ELSE IF url.netloc = "" THEN None
    ELSE [url EXCEPT !.query = urlencode(DelTracking(parse_qs(url.query))),
                     !.fragment = ""]

\* urllib.parse.urljoin(base, url) for a reference without scheme: the host
\* of the reference if it has one, else the path resolved against the
\* directory of base; a reference with a scheme of its own is left alone
urljoin(base, url) ==
    IF url.scheme # "" /\ url.scheme # base.scheme THEN url
    ELSE IF url.netloc # "" THEN [url EXCEPT !.scheme = base.scheme]
    ELSE [url EXCEPT !.scheme = base.scheme, !.netloc = base.netloc,
                     !.path = IF url.path = <<>> THEN base.path
                              ELSE SubSeq(base.path, 1, Len(base.path) - 1)
                                   \o url.path]

normalize_image_url(image_url, base_url) ==
    IF image_url = None \/ image_url = EmptyStr THEN None
    ELSE IF image_url.malformed THEN image_url
    ELSE IF image_url.netloc = ""
    THEN normalize_url(urljoin(base_url, image_url))
    ELSE normalize_url(image_url)

\* "[url for url in normalized if not (url in seen or seen.add(url))]"
RECURSIVE Dedup(_)
Dedup(s) ==
    IF s = <<>> THEN <<>>
    ELSE LET front == Dedup(SubSeq(s, 1, Len(s) - 1))
         IN  IF s[Len(s)] \in Range(front) THEN front
             ELSE Append(front, s[Len(s)])

normalize_image_urls(image_urls, base_url) ==
    LET got == [n \in 1..Len(image_urls) |->
                   normalize_image_url(image_urls[n], base_url)]
    IN  Dedup(SelectSeqBy(got, Range(got) \ {None, EmptyStr}))

----------------------------------------------------------------------------
(* app/core/scraper.py: the strategy chain *)

FanOutCap == 10

methods == <<"newspaper", "trafilatura", "goose", "readability", "playwright">>

\* the dict a strategy returns; only the playwright strategy sets logo_url
Article(url, content, date, logo) ==
    [url |-> url, content |-> content, publication_date |-> date,
     logo_url |-> logo, image_urls |-> <<>>]

\* the dict of a strategy that found images on the page
WithImages(article, images) == [article EXCEPT !.image_urls = images]

\* f"{scheme}://{netloc}/favicon.ico" of _extract_logo
Favicon(url) == Url(url.scheme, url.netloc, <<"favicon.ico">>, <<>>, "")

\* the frame of a _scrape_article call on url that has tried nothing yet
NewJob(url) == [pc |-> "run", url |-> url, tried |-> <<>>, art |-> None]

\* the body a strategy produced: none when it returned None (also after an
\* exception, which every strategy catches itself)
BodyOf(result) == IF result = None THEN <<>> ELSE result.content

\* record of one turn of the loop of _scrape_article
Attempted(m, result) == [method |-> m, body |-> BodyOf(result)]

\* the condition "article and article.get('content')"
Usable(result) == result # None /\ Truthy(result.content)

\* ChainStep with the "return article" of line 179 lost: the loop goes on to
\* the next method after a usable result
ChainStep_NoReturn(j, result) ==
    LET m == methods[Len(j.tried) + 1]
        tried == Append(j.tried, Attempted(m, result))
    IN  IF Len(tried) = Len(methods)
        THEN [j EXCEPT !.tried = tried,
                       !.art = IF Usable(result) THEN result ELSE j.art,
                       !.pc = "done"]
        ELSE [j EXCEPT !.tried = tried,
                       !.art = IF Usable(result) THEN result ELSE j.art]

\* the body of the loop "for method in methods" for the next method, given
\* what the method returned
ChainStep(j, result) ==
    LET m == methods[Len(j.tried) + 1]
        tried == Append(j.tried, Attempted(m, result))
    IN  IF Usable(result)
        THEN [j EXCEPT !.tried = tried, !.art = result,
                       !.pc = IF result.logo_url = None THEN "logo" ELSE "done"]
        ELSE IF Len(tried) = Len(methods)
        THEN [j EXCEPT !.tried = tried, !.art = None, !.pc = "done"]
        ELSE [j EXCEPT !.tried = tried]

----------------------------------------------------------------------------
(* app/core/scraper.py: state of the tasks *)

Seeds == 1..Len(urls)

\* the frame of one scrape_url call: built tells that newspaper.build was
\* called (line 105), found is len(source.articles) of a listing (line 109),
\* n the number of _scrape_article calls it made
IdleSeed == [pc |-> "idle", built |-> FALSE, listing |-> FALSE, found |-> 0,
             n |-> 0, articles |-> <<>>, errors |-> <<>>]

\* an entry of an errors list; the message and traceback are left out
ErrorEntry(url) == [url |-> url]

\* Capped without the slice: every discovered link is fanned out
Capped_NoLimit(links) == links

\* source.articles[:10]
Capped(links) == SubSeq(links, 1, Min(Len(links), FanOutCap))

\* IsListing with a page that links one article taken for a listing
IsListing_AnyLink(links) == Len(links) > 0

\* line 107, "if len(source.articles) > 1"
IsListing(links) == Len(links) > 1

\* Rejected with the test of line 101 lost: every seed goes on to the network
Rejected_Never(normalized_url) == FALSE

\* line 101, "if not normalized_url": None and the empty string are falsy
Rejected(normalized_url) == normalized_url = None \/ normalized_url = EmptyStr

\* the scrape_url tasks that gather has created and that have not run yet
IdleSeeds == {i \in Seeds : spc = "gather" /\ seed[i].pc = "idle"}

\* the _scrape_article calls of seed i
JobsOf(i) == 1..Len(job[i])

\* the _scrape_article calls of seed i that are at position pc
JobsAt(i, pc) == {j \in JobsOf(i) : job[i][j].pc = pc}

\* _init_browser: the driver may fail to start, or start and fail to launch
InitOutcomes == {"ok", "no_driver", "no_launch"}

DriverAfter(o) == IF o = "no_driver" THEN playwright ELSE "started"

BrowserAfter(o) == IF o = "ok" THEN "open" ELSE browser

\* no driver process and no browser is running
NoProc == [drivers |-> 0, browsers |-> 0]

\* lines 601-602: what runs once async_playwright().start() and
\* chromium.launch() have been awaited with outcome o
ProcAfter(o) ==
    [drivers |-> proc.drivers + (IF o = "no_driver" THEN 0 ELSE 1),
     browsers |-> proc.browsers + (IF o = "ok" THEN 1 ELSE 0)]

----------------------------------------------------------------------------
(* Scraper.scrape_urls *)

\* lines 44-49: the lists are created and self.browser is tested
ScrapeUrlsEnter ==
    /\ spc = "call"
    /\ spc' = IF browser = "none" THEN "init" ELSE "gather"
    /\ UNCHANGED <<urls, call, playwright, browser, proc, caller, seed, job, articles,
                   errors, pipeVars>>

\* line 49: await self._init_browser(); a failure is re-raised by
\* _init_browser and nothing in scrape_urls or process_urls catches it
InitBrowser(o) ==
    /\ spc = "init"
    /\ playwright' = DriverAfter(o)
    /\ browser' = BrowserAfter(o)
    /\ proc' = ProcAfter(o)
    /\ spc' = IF o = "ok" THEN "gather" ELSE "raised"
    /\ ppc' = IF o # "ok" /\ ppc = "scrape" THEN "raised" ELSE ppc
    /\ UNCHANGED <<urls, call, caller, seed, job, articles, errors,
                   max_age_days, store_in_db, recent, enriched, cursor, log>>

\* lines 56-83: the loop over zip(urls, results) once gather has every
\* result; scrape_url catches every Exception, so each result is a pair
ScrapeUrlsReturn ==
    /\ spc = "gather"
    /\ \A i \in Seeds : seed[i].pc = "done"
    /\ articles' = Concat([i \in Seeds |-> seed[i].articles])
    /\ errors' = Concat([i \in Seeds |-> seed[i].errors])
    /\ spc' = "returned"
    /\ UNCHANGED <<urls, call, playwright, browser, proc, caller, seed, job, pipeVars>>

----------------------------------------------------------------------------
(* Scraper.scrape_url *)

\* lines 95-112 and 128-130, up to the first await: normalisation, the
\* listing test on what newspaper.build answers (d: it raises, or the links
\* of source.articles) and the creation of the _scrape_article calls
ScrapeUrlStart(i, d) ==
    /\ i \in IdleSeeds
    /\ LET normalized_url == normalize_url(urls[i])
           links == d.links
           subs == Capped(links)
       IN  IF Rejected(normalized_url)
           THEN /\ seed' = [seed EXCEPT ![i] =
                       [@ EXCEPT !.pc = "done",
                                 !.errors = <<ErrorEntry(urls[i])>>]]
                /\ job' = job
           ELSE IF d.raises
           THEN /\ seed' = [seed EXCEPT ![i] =
                       [@ EXCEPT !.pc = "done", !.built = TRUE,
                                 !.errors = <<ErrorEntry(urls[i])>>]]
                /\ job' = job
           ELSE IF IsListing(links)
           THEN /\ seed' = [seed EXCEPT ![i] =
                       [@ EXCEPT !.pc = "wait", !.built = TRUE,
                                 !.listing = TRUE,
                                 !.found = Len(links), !.n = Len(subs)]]
                /\ job' = [job EXCEPT ![i] =
                       [j \in 1..Len(subs) |-> NewJob(subs[j])]]
           ELSE /\ seed' = [seed EXCEPT ![i] =
                       [@ EXCEPT !.pc = "wait", !.built = TRUE,
                                 !.found = Len(links), !.n = 1]]
                /\ job' = [job EXCEPT ![i] = <<NewJob(normalized_url)>>]
    /\ UNCHANGED <<urls, call, playwright, browser, proc, caller, spc, articles, errors,
                   pipeVars>>

\* ListingEntries with a gather that gives up on the first failed
\* sub-article: the siblings' articles are lost
ListingEntries_AbortOnFailure(i) ==
    LET got == [j \in 1..seed[i].n |-> job[i][j].art]
    IN  IF None \in Range(got) THEN <<>> ELSE got

\* lines 116-127: a sub-article whose result is None adds nothing
ListingEntries(i) ==
    LET got == [j \in 1..seed[i].n |-> job[i][j].art]
    IN  SelectSeqBy(got, Range(got) \ {None})

\* lines 130-132: "if article: articles.append(article)"
SingleEntries(i) ==
    IF job[i][1].art # None THEN <<job[i][1].art>> ELSE <<>>

\* lines 113-132 and 143, after the awaited calls have returned;
\* _scrape_article catches every Exception of a strategy and returns None
ScrapeUrlFinish(i) ==
    /\ seed[i].pc = "wait"
    /\ \A j \in JobsOf(i) : job[i][j].pc = "done"
    /\ seed' = [seed EXCEPT ![i] =
           [@ EXCEPT !.pc = "done",
                     !.articles = IF seed[i].listing THEN ListingEntries(i)
                                  ELSE SingleEntries(i)]]
    /\ UNCHANGED <<urls, call, playwright, browser, proc, caller, spc, job, articles, errors,
                   pipeVars>>

----------------------------------------------------------------------------
(* Scraper._scrape_article *)

\* the method the loop of the _scrape_article call with frame j is at
NextMethodOf(j) == methods[Len(j.tried) + 1]

\* the method the loop of _scrape_article is at
NextMethod(i, j) == NextMethodOf(job[i][j])

\* line 170: one strategy is awaited and hands back result.  The playwright
\* strategy starts the browser first when there is none (lines 363-364); if
\* that fails it returns None.
Attempt(i, j, result, o) ==
    /\ job[i][j].pc = "run"
    /\ IF NextMethod(i, j) = "playwright" /\ browser = "none"
       THEN /\ playwright' = DriverAfter(o)
            /\ browser' = BrowserAfter(o)
            /\ proc' = ProcAfter(o)
            /\ job' = [job EXCEPT ![i][j] =
                   ChainStep(@, IF o = "ok" THEN result ELSE None)]
       ELSE /\ o = "ok"
            /\ job' = [job EXCEPT ![i][j] = ChainStep(@, result)]
            /\ UNCHANGED <<playwright, browser, proc>>
    /\ UNCHANGED <<urls, call, caller, spc, seed, articles, errors, pipeVars>>

\* line 170: the awaited strategy never completes; nothing in the chain
\* bounds the wait
Hang(i, j) ==
    /\ job[i][j].pc = "run"
    /\ job' = [job EXCEPT ![i][j].pc = "hung"]
    /\ UNCHANGED <<urls, call, playwright, browser, proc, caller, spc, seed, articles,
                   errors, pipeVars>>

\* lines 176-179: _extract_logo is awaited for a dict without a logo and the
\* article is returned; _extract_logo returns None on every failure
ExtractLogo(i, j, logo) ==
    /\ job[i][j].pc = "logo"
    /\ job' = [job EXCEPT ![i][j] =
           [@ EXCEPT !.pc = "done", !.art = [@ EXCEPT !.logo_url = logo]]]
    /\ UNCHANGED <<urls, call, playwright, browser, proc, caller, spc, seed, articles,
                   errors, pipeVars>>

----------------------------------------------------------------------------
(* The environment of the batch specification *)

CleanUrl == Url("https", "a.com", <<"p">>, <<>>, "")

TrackedUrl == Url("https", "a.com", <<"p">>, <<<<"utm_source", "x">>>>, "frag")

RelativeUrl == Url("", "", <<"p">>, <<>>, "")

\* the seeds of a batch: a URL that normalisation changes (to CleanUrl) and
\* one that it rejects
SeedUrls == {TrackedUrl, RelativeUrl}

\* the k-th article link of a listing page
LinkUrl(k) == Url("https", "a.com", <<"a", ToString(k)>>, <<>>, "")

LinkSeq(n) == [k \in 1..n |-> LinkUrl(k)]

Discovery(maxLinks) ==
    {[raises |-> TRUE, links |-> <<>>]}
    \cup {[raises |-> FALSE, links |-> LinkSeq(n)] : n \in 0..maxLinks}

\* an article link that differs from the first link of the page only by a
\* tracking parameter and a fragment
TrackedLink == [LinkUrl(1) EXCEPT !.query = <<<<"utm_source", "x">>>>,
                                  !.fragment = "frag"]

\* what newspaper.build may answer when the page links the same article
\* twice: the last link is the first one again, with a tracking parameter
DiscoveryWithTwin(maxLinks) ==
    Discovery(maxLinks)
    \cup {[raises |-> FALSE,
           links |-> [LinkSeq(n) EXCEPT ![n] = TrackedLink]] : n \in 2..maxLinks}

\* _scrape_article calls a seed leads to
JobsNeeded(u, d) ==
    IF normalize_url(u) = None \/ d.raises THEN 0
    ELSE IF IsListing(d.links) THEN Min(Len(d.links), FanOutCap) ELSE 1

RECURSIVE SumSeq(_)
SumSeq(s) == IF s = <<>> THEN 0 ELSE Head(s) + SumSeq(Tail(s))

\* the seeds that pass normalisation
ValidSeeds == {i \in Seeds : normalize_url(urls[i]) # None}

\* _scrape_article calls seed i may still make when the batch makes at most
\* most calls and every other seed that has not started keeps one
Budget(i, most) ==
    most - SumSeq([k \in Seeds |-> Cardinality(JobsOf(k))])
         - Cardinality({k \in ValidSeeds \ {i} : seed[k].pc = "idle"})

\* what newspaper.build may answer for seed i within the budget: it fails,
\* finds no article link, or finds several
DiscoveryFor(i, maxLinks, most) ==
    {d \in Discovery(maxLinks) :
        /\ Len(d.links) # 1
        /\ JobsNeeded(urls[i], d) <= Budget(i, most)}

Batches(n) == [1..n -> SeedUrls]

Bodies == {<<>>, <<" ">>, <<"b">>}

\* what a strategy can hand back for url; the readability strategy never
\* reports a date (line 341)
Results(url, m, bodies, dates, logos) ==
    {None} \cup
    {Article(url, c, d, IF m = "playwright" THEN l ELSE None) :
        c \in bodies, d \in IF m = "readability" THEN {None} ELSE dates,
        l \in logos}

ScraperInit ==
    /\ playwright = "none"
    /\ browser = "none"
    /\ proc = NoProc
    /\ caller = <<>>
    /\ spc = "call"
    /\ seed = [i \in 1..MaxSeeds |-> IdleSeed]
    /\ job = [i \in 1..MaxSeeds |-> <<>>]
    /\ articles = <<>>
    /\ errors = <<>>

PipelineOff ==
    /\ ppc = "off"
    /\ max_age_days = 0
    /\ store_in_db = FALSE
    /\ recent = <<>>
    /\ enriched = <<>>
    /\ cursor = 0
    /\ log = {}

\* Scraper().scrape_urls(urls), as tests/test_scraper.py calls it, on a
\* batch of several seeds; a strategy that answers finds a body
Init ==
    /\ \E n \in 1..MaxSeeds :
          /\ urls \in Batches(n)
          /\ Cardinality(ValidSeeds) <= MaxJobs
    /\ ScraperInit
    /\ PipelineOff
    /\ call = NoCall

Next ==
    \/ ScrapeUrlsEnter
    \/ \E o \in InitOutcomes : InitBrowser(o)
    \/ \E i \in IdleSeeds : \E d \in DiscoveryFor(i, MaxLinks, MaxJobs) :
          ScrapeUrlStart(i, d)
    \/ \E i \in Seeds : \E j \in JobsAt(i, "run") :
          \E r \in Results(job[i][j].url, NextMethod(i, j), {<<"b">>}, {None},
                           {None}) :
             Attempt(i, j, r, "ok")
    \/ \E i \in Seeds : \E j \in JobsAt(i, "run") : Hang(i, j)
    \/ \E i \in Seeds : \E j \in JobsAt(i, "logo") : ExtractLogo(i, j, None)
    \/ \E i \in Seeds : ScrapeUrlFinish(i)
    \/ ScrapeUrlsReturn

Spec == Init /\ [][Next]_vars

----------------------------------------------------------------------------
(* app/utils/date_filters/filters.py *)

DefaultMaxAgeDays == 180

\* A date string is the sequence of its tokens: a run of digits, by value
\* and width, or a piece of other text (a run of blanks is " ").
Num(n, w) == [lit |-> "", n |-> n, w |-> w]

Lit(text) == [lit |-> text, n |-> 0, w |-> 0]

MonthNames ==
    <<"January", "February", "March", "April", "May", "June", "July",
      "August", "September", "October", "November", "December">>

\* lines 70-86, each format split into its directives and literals
formats ==
    <<<<"%Y", "-", "%m", "-", "%d", "T", "%H", ":", "%M", ":", "%S">>,
      <<"%Y", "-", "%m", "-", "%d", "T", "%H", ":", "%M", ":", "%S", ".",
        "%f">>,
      <<"%Y", "-", "%m", "-", "%d", "T", "%H", ":", "%M", ":", "%S", "Z">>,
      <<"%Y", "-", "%m", "-", "%d", "T", "%H", ":", "%M", ":", "%S", ".",
        "%f", "Z">>,
      <<"%Y", "-", "%m", "-", "%d", "T", "%H", ":", "%M">>,
      <<"%Y", "-", "%m", "-", "%d", " ", "%H", ":", "%M", ":", "%S">>,
      <<"%Y", "-", "%m", "-", "%d", " ", "%H", ":", "%M">>,
      <<"%Y", "-", "%m", "-", "%d">>,
      <<"%d", "/", "%m", "/", "%Y">>,
      <<"%m", "/", "%d", "/", "%Y">>,
      <<"%d", "-", "%m", "-", "%Y">>,
      <<"%m", "-", "%d", "-", "%Y">>,
      <<"%B", " ", "%d", ",", " ", "%Y">>,
      <<"%d", " ", "%B", " ", "%Y">>,
      <<"%Y", "/", "%m", "/", "%d">>>>

\* what a directive of strptime accepts; any other piece of a format is a
\* literal and accepts itself
Accepts(f, tok) ==
    CASE f = "%Y" -> tok.w = 4
      [] f = "%m" -> tok.w \in 1..2 /\ tok.n \in 1..12
      [] f = "%d" -> tok.w \in 1..2 /\ tok.n \in 1..31
      [] f = "%H" -> tok.w \in 1..2 /\ tok.n \in 0..23
      [] f = "%M" -> tok.w \in 1..2 /\ tok.n \in 0..59
      [] f = "%S" -> tok.w \in 1..2 /\ tok.n \in 0..61
      [] f = "%f" -> tok.w \in 1..6
      [] f = "%B" -> tok.lit \in Range(MonthNames)
      [] OTHER -> tok.lit = f

\* the whole string matches the format
Matches(text, fmt) ==
    /\ Len(text) = Len(fmt)
    /\ \A k \in 1..Len(fmt) : Accepts(fmt[k], text[k])

\* the number the string gives for directive f, or else what strptime
\* assumes for it
Field(text, fmt, f, else) ==
    IF \E k \in 1..Len(fmt) : fmt[k] = f
    THEN text[CHOOSE k \in 1..Len(fmt) : fmt[k] = f].n
    ELSE else

MonthOf(text, fmt) ==
    IF \E k \in 1..Len(fmt) : fmt[k] = "%B"
    THEN LET name == text[CHOOSE k \in 1..Len(fmt) : fmt[k] = "%B"].lit
         IN  CHOOSE m \in 1..12 : MonthNames[m] = name
    ELSE Field(text, fmt, "%m", 1)

DaysIn(year, month) ==
    IF month = 2
    THEN (IF year % 4 = 0 /\ (year % 100 # 0 \/ year % 400 = 0)
          THEN 29 ELSE 28)
    ELSE IF month \in {4, 6, 9, 11} THEN 30 ELSE 31

\* datetime(...) raises ValueError on these fields
BadDate(dt) ==
    \/ dt.year < 1
    \/ dt.month \notin 1..12
    \/ dt.day \notin 1..DaysIn(dt.year, dt.month)
    \/ dt.second > 59

\* datetime.strptime(text, fmt); None stands for its ValueError
strptime(text, fmt) ==
    IF ~Matches(text, fmt) THEN None
    ELSE LET dt == [year |-> Field(text, fmt, "%Y", 1900),
                    month |-> MonthOf(text, fmt),
                    day |-> Field(text, fmt, "%d", 1),
                    hour |-> Field(text, fmt, "%H", 0),
                    minute |-> Field(text, fmt, "%M", 0),
                    second |-> Field(text, fmt, "%S", 0)]
         IN  IF BadDate(dt) THEN None ELSE dt

\* lines 93-97: the loop over the formats from the k-th on
RECURSIVE TryFormats(_, _, _)
TryFormats(text, fmts, k) ==
    IF k > Len(fmts) THEN None
    ELSE LET dt == strptime(text, fmts[k])
         IN  IF dt # None THEN dt ELSE TryFormats(text, fmts, k + 1)

\* where re.search finds (\d{4})-(\d{1,2})-(\d{1,2}): the year is the end
\* of a run of digits, the day the start of one
YmdAt(text) ==
    {k \in 1..(Len(text) - 4) :
        /\ text[k].w >= 4
        /\ text[k + 1].lit = "-"
        /\ text[k + 2].w \in 1..2
        /\ text[k + 3].lit = "-"
        /\ text[k + 4].w >= 1}

\* lines 100-108: the date of the first place found; a ValueError of
\* datetime(year, month, day) is swallowed
SearchYmd(text) ==
    IF YmdAt(text) = {} THEN None
    ELSE LET k == CHOOSE k \in YmdAt(text) : \A h \in YmdAt(text) : k <= h
             last == text[k + 4]
             dt == [year |-> text[k].n % 10000,
                    month |-> text[k + 2].n,
                    day |-> IF last.w <= 2 THEN last.n
                            ELSE last.n \div 10 ^ (last.w - 2),
                    hour |-> 0, minute |-> 0, second |-> 0]
         IN  IF BadDate(dt) THEN None ELSE dt

\* parse_date with the US formats tried before the European ones
ParseText_MonthFirst(text) ==
    LET swap == [k \in 1..Len(formats) |->
                    IF k \in {9, 11} THEN formats[k + 1]
                    ELSE IF k \in {10, 12} THEN formats[k - 1]
                    ELSE formats[k]]
        dt == TryFormats(text, swap, 1)
    IN  IF text = <<>> THEN None
        ELSE IF dt # None THEN dt ELSE SearchYmd(text)

\* parse_date on the text of a string: the datetime, or None
ParseText(text) ==
    LET dt == TryFormats(text, formats, 1)
    IN  IF text = <<>> THEN None
        ELSE IF dt # None THEN dt ELSE SearchYmd(text)

\* "2023-01-15"
IsoText == <<Num(2023, 4), Lit("-"), Num(1, 2), Lit("-"), Num(15, 2)>>

\* a publication date string: its text, and the age in days, at the time of
\* the call, of the instant the text denotes; a string that cannot be read
\* is "x"
DateStr(readable, age) ==
    [text |-> IF readable THEN IsoText ELSE <<Lit("x")>>, age |-> age]

\* parse_date: the datetime, with its distance from utcnow(), or None
parse_date(date_str) ==
    IF date_str = None THEN None
    ELSE LET dt == ParseText(date_str.text)
         IN  IF dt = None THEN None
             ELSE [year |-> dt.year, month |-> dt.month, day |-> dt.day,
                   hour |-> dt.hour, minute |-> dt.minute,
                   second |-> dt.second, age |-> date_str.age]

\* is_recent_article with "pub_date > cutoff_date"
is_recent_article_Strict(article, days) ==
    IF article.publication_date = None THEN FALSE
    ELSE LET pub_date == parse_date(article.publication_date)
         IN  IF pub_date = None THEN FALSE ELSE pub_date.age < days

\* pub_date >= utcnow() - timedelta(days): the age is at most days
is_recent_article(article, days) ==
    IF article.publication_date = None THEN FALSE
    ELSE LET pub_date == parse_date(article.publication_date)
         IN  IF pub_date = None THEN FALSE ELSE pub_date.age <= days

\* filter_recent_articles that hands the recent articles back last first
filter_recent_articles_Reversed(arts, days) ==
    LET kept == SelectSeqBy(arts, {a \in Range(arts) :
                                     is_recent_article(a, days)})
    IN  [k \in 1..Len(kept) |-> kept[Len(kept) + 1 - k]]

RECURSIVE filter_recent_articles(_, _)
filter_recent_articles(arts, days) ==
    IF arts = <<>> THEN <<>>
    ELSE (IF is_recent_article(Head(arts), days) THEN <<Head(arts)>> ELSE <<>>)
         \o filter_recent_articles(Tail(arts), days)

----------------------------------------------------------------------------
(* app/pipeline.py: Pipeline.process_urls *)

\* fakenews/detector.py lines 110-116: what FakeNewsDetector.enrich_article
\* writes; verdict is what detect_fake_news answered, None when it raised
is_fake_news(verdict) ==
    [bool |-> IF verdict = None THEN FALSE ELSE verdict.is_fake]

confidence_score(verdict) ==
    [float |-> IF verdict = None THEN 0 ELSE verdict.confidence]

\* what the detector answers: a probability in percent and whether it is
\* above the threshold of detector.py line 78
Verdicts == {[is_fake |-> TRUE, confidence |-> 90]}

\* the errors the two enrichers log for the article at index k
\* (enrichment.py line 280, detector.py line 114)
EnrichLog(k, summary, verdict) ==
    (IF summary = None THEN {<<k, "summary">>} ELSE {})
        \cup (IF verdict = None THEN {<<k, "fake_news">>} ELSE {})

\* NLPEnricher.enrich_article, then FakeNewsDetector.enrich_article: a
\* failing summariser is caught and leaves summary None; the image URLs and
\* the logo URL are normalised before (pipeline.py lines 69-74)
Enriched(article, summary, verdict) ==
    [url |-> article.url, content |-> article.content,
     publication_date |-> article.publication_date,
     image_urls |-> IF article.image_urls = <<>> THEN <<>>
                    ELSE normalize_image_urls(article.image_urls, article.url),
     logo_url |-> IF article.logo_url = None THEN None
                  ELSE normalize_url(article.logo_url),
     summary |-> summary,
     is_fake_news |-> is_fake_news(verdict),
     confidence_score |-> confidence_score(verdict),
     scraped_at |-> None, _id |-> None]

\* Stamped with a store_article that keeps only what it was given by the
\* scraper: the summary is lost from the returned article
Stamped_Bare(article) ==
    [article EXCEPT !.scraped_at = [now |-> TRUE],
                    !._id = [md5 |-> article.url],
                    !.summary = None]

\* mongodb.py lines 57-68: store_article writes the timestamp and the id into
\* the article it is given, before it talks to the database
Stamped(article) ==
    [article EXCEPT !.scraped_at = [now |-> TRUE],
                    !._id = [md5 |-> article.url]]

\* where process_urls goes once the enrich loop is at index k of arts:
\* line 93 "if self.store_in_db and self.db_client and enriched_articles"
AfterEnrich(k, arts, done) ==
    IF k <= Len(arts) THEN "enrich"
    ELSE IF store_in_db /\ done # <<>> THEN "store" ELSE "returned"

\* lines 53-58, once scrape_urls has returned
PipeFilter ==
    /\ ppc = "scrape"
    /\ spc = "returned"
    /\ recent' = IF max_age_days > 0
                 THEN filter_recent_articles(articles, max_age_days)
                 ELSE articles
    /\ enriched' = <<>>
    /\ cursor' = 1
    /\ ppc' = AfterEnrich(1, recent', <<>>)
    /\ UNCHANGED <<urls, call, scraperVars, errors, max_age_days, store_in_db,
                   log>>

\* lines 62-82: one turn of the enrich loop; the enrichers catch their own
\* failures, so the except branch of line 84 is not taken
PipeEnrich(summary, verdict) ==
    /\ ppc = "enrich"
    /\ enriched' = Append(enriched, Enriched(recent[cursor], summary, verdict))
    /\ log' = log \cup EnrichLog(Len(enriched'), summary, verdict)
    /\ cursor' = IF AfterEnrich(cursor + 1, recent, enriched') = "enrich"
                 THEN cursor + 1 ELSE 1
    /\ ppc' = AfterEnrich(cursor + 1, recent, enriched')
    /\ UNCHANGED <<urls, call, scraperVars, errors, max_age_days, store_in_db,
                   recent>>

\* lines 95-106: one turn of the store loop; store_article returns the id or,
\* on any failure, None (logged at mongodb.py line 82), and never raises;
\* either way it has stamped the article, which is the object held by the
\* returned list
PipeStore(article_id) ==
    /\ ppc = "store"
    /\ enriched' = [enriched EXCEPT ![cursor] = Stamped(@)]
    /\ log' = IF article_id = None THEN log \cup {<<cursor, "store">>} ELSE log
    /\ cursor' = cursor + 1
    /\ ppc' = IF cursor + 1 <= Len(enriched) THEN "store" ELSE "returned"
    /\ UNCHANGED <<urls, call, scraperVars, errors, max_age_days, store_in_db,
                   recent>>

----------------------------------------------------------------------------
(* The fan-out specification: one listing seed with many links.  The *)
(* sub-articles complete in the order of their links and only the first *)
(* strategy finds a body. *)

FanInit ==
    /\ urls = <<CleanUrl>>
    /\ ScraperInit
    /\ PipelineOff
    /\ call = NoCall

\* the first sub-article call of seed i that has not returned
FirstOpen(i) ==
    {j \in JobsOf(i) : /\ job[i][j].pc \in {"run", "logo"}
                       /\ \A k \in 1..(j - 1) : job[i][k].pc = "done"}

FanNext ==
    \/ ScrapeUrlsEnter
    \/ \E o \in {"ok"} : InitBrowser(o)
    \/ \E i \in IdleSeeds : \E d \in Discovery(MaxFanLinks) :
          ~d.raises /\ ScrapeUrlStart(i, d)
    \/ \E i \in Seeds : \E j \in FirstOpen(i) \cap JobsAt(i, "run") :
          \E r \in Results(job[i][j].url, NextMethod(i, j), {<<"b">>}, {None},
                           {None}) :
             /\ (r # None => NextMethod(i, j) = "newspaper")
             /\ Attempt(i, j, r, "ok")
    \/ \E i \in Seeds : \E j \in FirstOpen(i) \cap JobsAt(i, "logo") :
          ExtractLogo(i, j, None)
    \/ \E i \in Seeds : ScrapeUrlFinish(i)
    \/ ScrapeUrlsReturn

FanSpec == FanInit /\ [][FanNext]_vars

----------------------------------------------------------------------------
(* The pipeline specification: Pipeline(max_age_days, store_in_db) and *)
(* process_urls(urls) on a batch of single-article pages; a strategy that *)
(* answers finds a body. *)

PubDates == {None, DateStr(FALSE, 0), DateStr(TRUE, DefaultMaxAgeDays),
             DateStr(TRUE, DefaultMaxAgeDays + 1)}

\* the dates strategy m may report: the rendered page may also carry the
\* date of today
PubDatesOf(m) ==
    IF m = "playwright" THEN PubDates \cup {DateStr(TRUE, 0)} ELSE PubDates

PipeInit ==
    /\ \E n \in 1..MaxSeeds :
          /\ urls \in Batches(n)
          /\ Cardinality(ValidSeeds) <= MaxJobs
    /\ ScraperInit
    /\ call = NoCall
    /\ ppc = "scrape"
    /\ max_age_days \in {0, DefaultMaxAgeDays}
    /\ store_in_db \in BOOLEAN
    /\ recent = <<>>
    /\ enriched = <<>>
    /\ cursor = 0
    /\ log = {}

PipeNext ==
    \/ ScrapeUrlsEnter
    \/ \E o \in InitOutcomes : InitBrowser(o)
    \/ \E i \in IdleSeeds : ScrapeUrlStart(i, [raises |-> FALSE, links |-> <<>>])
    \/ \E i \in Seeds : \E j \in JobsAt(i, "run") :
          \E r \in Results(job[i][j].url, NextMethod(i, j), {<<"b">>},
                           PubDatesOf(NextMethod(i, j)), {None}) :
             Attempt(i, j, r, "ok")
    \/ \E i \in Seeds : \E j \in JobsAt(i, "logo") : ExtractLogo(i, j, None)
    \/ \E i \in Seeds : ScrapeUrlFinish(i)
    \/ ScrapeUrlsReturn
    \/ PipeFilter
    \/ \E summary \in {None, [text |-> "summary"]} :
          \E verdict \in Verdicts : PipeEnrich(summary, verdict)
    \/ PipeStore([id |-> "md5"])

PipeSpec == PipeInit /\ [][PipeNext]_vars

----------------------------------------------------------------------------
(* The store specification: process_urls with the recency filter off, on a *)
(* batch of single-article pages without dates that the first or the *)
(* second strategy extracts, with every outcome of the two enrichers and of *)
(* store_article. *)

StoreInit ==
    /\ \E n \in 1..MaxSeeds : urls \in [1..n -> {CleanUrl, LinkUrl(1)}]
    /\ ScraperInit
    /\ call = NoCall
    /\ ppc = "scrape"
    /\ max_age_days = 0
    /\ store_in_db \in BOOLEAN
    /\ recent = <<>>
    /\ enriched = <<>>
    /\ cursor = 0
    /\ log = {}

StoreNext ==
    \/ ScrapeUrlsEnter
    \/ \E o \in InitOutcomes : InitBrowser(o)
    \/ \E i \in IdleSeeds : ScrapeUrlStart(i, [raises |-> FALSE, links |-> <<>>])
    \/ \E i \in Seeds : \E j \in JobsAt(i, "run") :
          \E r \in Results(job[i][j].url, NextMethod(i, j), {<<"b">>},
                           {None}, {None}) :
             /\ r = None => job[i][j].tried = <<>>
             /\ Attempt(i, j, r, "ok")
    \/ \E i \in Seeds : \E j \in JobsAt(i, "logo") : ExtractLogo(i, j, None)
    \/ \E i \in Seeds : ScrapeUrlFinish(i)
    \/ ScrapeUrlsReturn
    \/ PipeFilter
    \/ \E summary \in {None, [text |-> "summary"]} :
          \E verdict \in {None} \cup Verdicts : PipeEnrich(summary, verdict)
    \/ \E article_id \in {None, [id |-> "md5"]} : PipeStore(article_id)

StoreSpec == StoreInit /\ [][StoreNext]_vars

----------------------------------------------------------------------------
(* app/routers/scraper.py: POST /scrape, and Scraper.close which the *)
(* get_pipeline dependency awaits once the handler is through *)

\* the frame of one request to the endpoint
Request == [fn |-> "scrape_urls", pc |-> "depends", response |-> None]

\* what the client receives for an HTTPException, or for an exception
\* nothing handles (status 500)
HttpError(status, detail) == [status |-> status, detail |-> detail]

\* lines 56-59
ScrapeResponse(arts, errs) ==
    [status |-> 200, articles |-> arts, errors |-> errs]

\* lines 14-22: Depends(get_pipeline) builds Pipeline() before the handler is
\* called; Pipeline.__init__ (pipeline.py lines 30-35) loads the models of
\* the enrichers and creates the database client, and what these raise
\* (o = "raises") is handled by nothing
GetPipeline(o) ==
    /\ call.fn = "scrape_urls"
    /\ call.pc = "depends"
    /\ IF o = "ok"
       THEN /\ call' = [call EXCEPT !.pc = "handler"]
            /\ max_age_days' = DefaultMaxAgeDays
            /\ store_in_db' = TRUE
       ELSE /\ call' = [call EXCEPT !.pc = "done",
                           !.response = HttpError(500, "Internal Server Error")]
            /\ UNCHANGED <<max_age_days, store_in_db>>
    /\ UNCHANGED <<urls, scraperVars, errors, ppc, recent, enriched, cursor,
                   log>>

\* lines 46-53: the handler, up to the await of process_urls
RouterScrapeUrls ==
    /\ call.fn = "scrape_urls"
    /\ call.pc = "handler"
    /\ IF urls = <<>>
       THEN /\ call' = [call EXCEPT !.pc = "close",
                           !.response = HttpError(400, "No URLs provided")]
            /\ ppc' = ppc
       ELSE /\ call' = [call EXCEPT !.pc = "await"]
            /\ ppc' = "scrape"
    /\ UNCHANGED <<urls, scraperVars, errors, max_age_days, store_in_db,
                   recent, enriched, cursor, log>>

\* lines 53-59: process_urls has returned, or raised
RouterReturn ==
    /\ call.fn = "scrape_urls"
    /\ call.pc = "await"
    /\ ppc \in {"returned", "raised"}
    /\ call' = [call EXCEPT !.pc = "close",
                   !.response = IF ppc = "returned"
                                THEN ScrapeResponse(enriched, errors)
                                ELSE HttpError(500, "Internal Server Error")]
    /\ UNCHANGED <<urls, scraperVars, errors, pipeVars>>

\* core/scraper.py lines 610-612, reached from line 24 of the router through
\* Pipeline.close
CloseBrowser ==
    /\ call.pc = "close"
    /\ browser' = "none"
    /\ proc' = IF browser = "none" THEN proc
               ELSE [proc EXCEPT !.browsers = @ - 1]
    /\ call' = [call EXCEPT !.pc = "stop"]
    /\ UNCHANGED <<urls, playwright, caller, spc, seed, job, articles, errors,
                   pipeVars>>

\* core/scraper.py lines 614-616
ClosePlaywright ==
    /\ call.pc = "stop"
    /\ playwright' = "none"
    /\ proc' = IF playwright = "none" THEN proc
               ELSE [proc EXCEPT !.drivers = @ - 1]
    /\ call' = [call EXCEPT !.pc = "done"]
    /\ UNCHANGED <<urls, browser, caller, spc, seed, job, articles, errors,
                   pipeVars>>

----------------------------------------------------------------------------
(* The router specification: one POST /scrape request with no URL or with *)
(* one seed, a single-article page. *)

RouterInit ==
    /\ urls \in {<<>>} \cup Batches(1)
    /\ ScraperInit
    /\ PipelineOff
    /\ call = Request

RouterNext ==
    \/ \E o \in {"ok", "raises"} : GetPipeline(o)
    \/ RouterScrapeUrls
    \/ ppc = "scrape" /\ ScrapeUrlsEnter
    \/ \E o \in InitOutcomes : InitBrowser(o)
    \/ \E i \in IdleSeeds : ScrapeUrlStart(i, [raises |-> FALSE, links |-> <<>>])
    \/ \E i \in Seeds : \E j \in JobsAt(i, "run") :
          \E r \in Results(job[i][j].url, NextMethod(i, j), {<<"b">>},
                           PubDatesOf(NextMethod(i, j)), {None}) :
             Attempt(i, j, r, "ok")
    \/ \E i \in Seeds : \E j \in JobsAt(i, "logo") : ExtractLogo(i, j, None)
    \/ \E i \in Seeds : ScrapeUrlFinish(i)
    \/ ScrapeUrlsReturn
    \/ PipeFilter
    \/ \E summary \in {None, [text |-> "summary"]} :
          \E verdict \in {None} \cup Verdicts : PipeEnrich(summary, verdict)
    \/ \E article_id \in {None, [id |-> "md5"]} : PipeStore(article_id)
    \/ RouterReturn
    \/ CloseBrowser
    \/ ClosePlaywright

RouterSpec == RouterInit /\ [][RouterNext]_vars

----------------------------------------------------------------------------
(* The browser of a Scraper, step by step: the calls that test, start and *)
(* use it (scrape_urls, _scrape_with_playwright, _extract_logo), each await *)
(* a point where another call may run, and close() *)

MaxCallers == 2      \* most calls made on the Scraper

MaxCloses == 2       \* most calls of close()

\* the frame of a call of fn that has not run yet; init is how far its
\* _init_browser got ("none", "driver" or "browser") and page is the page
\* the call opened ("none", "open" or "closed")
NewCaller(fn) == [fn |-> fn, pc |-> "call", init |-> "none", page |-> "none"]

\* the frame of the owner's close() calls, n of them made so far
Closing(pc, n) == [fn |-> "close", pc |-> pc, n |-> n]

\* no call is between its first and its last step
Quiescent == \A c \in 1..Len(caller) : caller[c].pc \in {"done", "raised"}

\* a call is made on the Scraper
Call(fn) ==
    /\ Len(caller) < MaxCallers
    /\ call.n = 0
    /\ caller' = Append(caller, NewCaller(fn))
    /\ UNCHANGED <<urls, call, playwright, browser, proc, spc, seed, job,
                   articles, errors, pipeVars>>

\* lines 47-48 and 362-363, "if not self.browser": the call goes on to
\* _init_browser, or to its work
CheckBrowser(c) ==
    /\ caller[c].pc = "call"
    /\ caller[c].fn \in {"scrape_urls", "_scrape_with_playwright"}
    /\ caller' = [caller EXCEPT ![c].pc =
           IF browser = "none" THEN "start"
           ELSE IF caller[c].fn = "scrape_urls" THEN "done" ELSE "page"]
    /\ UNCHANGED <<urls, call, playwright, browser, proc, spc, seed, job,
                   articles, errors, pipeVars>>

\* where a call is once _init_browser raised: scrape_urls lets the exception
\* through, _scrape_with_playwright catches it (line 494) and returns None
AfterRaise(fn) == IF fn = "scrape_urls" THEN "raised" ELSE "done"

\* line 601: async_playwright().start() has been awaited
StartDriver(c, ok) ==
    /\ caller[c].pc = "start"
    /\ IF ok
       THEN /\ playwright' = "started"
            /\ proc' = [proc EXCEPT !.drivers = @ + 1]
            /\ caller' = [caller EXCEPT ![c] = [@ EXCEPT !.pc = "launch",
                                                         !.init = "driver"]]
       ELSE /\ caller' = [caller EXCEPT ![c].pc = AfterRaise(caller[c].fn)]
            /\ UNCHANGED <<playwright, proc>>
    /\ UNCHANGED <<urls, call, browser, spc, seed, job, articles, errors,
                   pipeVars>>

\* line 602: chromium.launch() has been awaited
Launch(c, ok) ==
    /\ caller[c].pc = "launch"
    /\ IF ok
       THEN /\ browser' = "open"
            /\ proc' = [proc EXCEPT !.browsers = @ + 1]
            /\ caller' = [caller EXCEPT ![c] =
                   [@ EXCEPT !.init = "browser",
                             !.pc = IF caller[c].fn = "scrape_urls"
                                    THEN "done" ELSE "page"]]
       ELSE /\ caller' = [caller EXCEPT ![c].pc = AfterRaise(caller[c].fn)]
            /\ UNCHANGED <<browser, proc>>
    /\ UNCHANGED <<urls, call, playwright, spc, seed, job, articles, errors,
                   pipeVars>>

\* lines 514-523: the HEAD request for /favicon.ico is answered; without a
\* favicon the page of the site is rendered if there is a browser
CheckLogo(c, favicon) ==
    /\ caller[c].pc = "call"
    /\ caller[c].fn = "_extract_logo"
    /\ caller' = [caller EXCEPT ![c].pc =
           IF favicon \/ browser = "none" THEN "done" ELSE "page"]
    /\ UNCHANGED <<urls, call, playwright, browser, proc, spc, seed, job,
                   articles, errors, pipeVars>>

\* lines 367 and 524: self.browser.new_page() has been awaited; when it
\* raises the call returns None
NewPage(c, ok) ==
    /\ caller[c].pc = "page"
    /\ caller' = [caller EXCEPT ![c] =
           IF ok THEN [@ EXCEPT !.pc = "work", !.page = "open"]
           ELSE [@ EXCEPT !.pc = "done"]]
    /\ UNCHANGED <<urls, call, playwright, browser, proc, spc, seed, job,
                   articles, errors, pipeVars>>

\* AfterWork without the finally clause: a failure leaves the try block
\* past page.close()
AfterWork_NoFinally(o) == IF o = "ok" THEN "finally" ELSE "done"

\* lines 369-492 and 525-558: try ... finally, whatever happened on the page
AfterWork(o) == "finally"

\* the navigation and the evaluation on the page end: with the data, or
\* with an exception
Work(c, o) ==
    /\ caller[c].pc = "work"
    /\ caller' = [caller EXCEPT ![c].pc = AfterWork(o)]
    /\ UNCHANGED <<urls, call, playwright, browser, proc, spc, seed, job,
                   articles, errors, pipeVars>>

\* lines 490-492 and 556-558: await page.close(), and the call returns
ClosePage(c) ==
    /\ caller[c].pc = "finally"
    /\ caller' = [caller EXCEPT ![c] = [@ EXCEPT !.pc = "done",
                                                 !.page = "closed"]]
    /\ UNCHANGED <<urls, call, playwright, browser, proc, spc, seed, job,
                   articles, errors, pipeVars>>

\* the owner calls close() once the calls it made are through, as
\* get_pipeline does (routers/scraper.py lines 21-25)
CallClose ==
    /\ call.fn = "close"
    /\ call.pc \in {"idle", "done"}
    /\ call.n < MaxCloses
    /\ caller # <<>>
    /\ Quiescent
    /\ call' = Closing("close", call.n + 1)
    /\ UNCHANGED <<urls, scraperVars, errors, pipeVars>>

BrowserInit ==
    /\ urls = <<>>
    /\ ScraperInit
    /\ PipelineOff
    /\ call = Closing("idle", 0)

BrowserNext ==
    \/ \E fn \in {"scrape_urls", "_scrape_with_playwright", "_extract_logo"} :
          Call(fn)
    \/ \E c \in 1..Len(caller) : CheckBrowser(c)
    \/ \E c \in 1..Len(caller) : \E ok \in BOOLEAN : StartDriver(c, ok)
    \/ \E c \in 1..Len(caller) : \E ok \in BOOLEAN : Launch(c, ok)
    \/ \E c \in 1..Len(caller) : \E favicon \in BOOLEAN : CheckLogo(c, favicon)
    \/ \E c \in 1..Len(caller) : \E ok \in BOOLEAN : NewPage(c, ok)
    \/ \E c \in 1..Len(caller) : \E o \in {"ok", "raises"} : Work(c, o)
    \/ \E c \in 1..Len(caller) : ClosePage(c)
    \/ CallClose
    \/ CloseBrowser
    \/ ClosePlaywright

BrowserSpec == BrowserInit /\ [][BrowserNext]_vars

----------------------------------------------------------------------------
(* One _scrape_article call with what its strategies do about the language: *)
(* each strategy fills the "language" key while it builds its result *)

\* a language code
Lang(code) == [lang |-> code]

\* lines 583-596: an empty text gives "en" without a detector being asked;
\* otherwise detected is what langdetect, or after it langid, answers, and
\* "en" stands in when both fail (detected = None)
detect_language(text, detected) ==
    IF ~Truthy(text) \/ detected = None THEN Lang("en") ELSE detected

\* lines 208, 251 and 286, "meta_lang or self._detect_language(text)"; the
\* readability and playwright strategies have no meta_lang (lines 340, 481)
Language(meta_lang, text, detected) ==
    IF meta_lang # None THEN meta_lang ELSE detect_language(text, detected)

\* the strategies that read a language from the page
WithMetaLang == {"newspaper", "trafilatura", "goose"}

\* the ways a strategy ends: it raises before its result is built, it
\* returns the result, or (playwright, lines 487-492) the result is built
\* and page.close() raises in the finally clause
Endings(m) ==
    IF m = "playwright" THEN {"raises", "returns", "late"}
    ELSE {"raises", "returns"}

\* the frame of a _scrape_article call: its loop, what each attempt did about
\* the language, and the number of _extract_logo calls
ChainCall(url) ==
    [fn |-> "_scrape_article", pc |-> "chain", job |-> NewJob(url),
     languages |-> <<>>, logo_calls |-> 0]

\* line 170: the next strategy is awaited; data is the result it builds
\* unless it raises before
StrategyAttempt(data, meta_lang, detected, ending) ==
    /\ call.fn = "_scrape_article"
    /\ call.job.pc = "run"
    /\ LET built == ending # "raises"
           asked == built /\ meta_lang = None /\ Truthy(data.content)
           language == IF built
                       THEN Language(meta_lang, data.content, detected)
                       ELSE None
           result == IF ending = "returns" THEN data ELSE None
       IN  call' = [call EXCEPT
                      !.job = ChainStep(@, result),
                      !.languages = Append(@, [asked |-> asked,
                                               language |-> language])]
    /\ UNCHANGED <<urls, scraperVars, errors, pipeVars>>

\* lines 176-179: _extract_logo is awaited and the article is returned
LogoBackfill(logo) ==
    /\ call.fn = "_scrape_article"
    /\ call.job.pc = "logo"
    /\ call' = [call EXCEPT
                  !.job = [@ EXCEPT !.pc = "done",
                                    !.art = [@ EXCEPT !.logo_url = logo]],
                  !.logo_calls = @ + 1]
    /\ UNCHANGED <<urls, scraperVars, errors, pipeVars>>

LangInit ==
    /\ urls = <<>>
    /\ ScraperInit
    /\ PipelineOff
    /\ call = ChainCall(CleanUrl)

LangNext ==
    \/ /\ call.job.pc = "run"
       /\ \E data \in Results(call.job.url, NextMethodOf(call.job), Bodies,
                              {None}, {None, Favicon(call.job.url)}) \ {None} :
             \E meta_lang \in IF NextMethodOf(call.job) \in WithMetaLang
                              THEN {None, Lang("fr")} ELSE {None} :
                \E detected \in {None, Lang("de")} :
                   \E ending \in Endings(NextMethodOf(call.job)) :
                      StrategyAttempt(data, meta_lang, detected, ending)
    \/ \E logo \in {None, Favicon(call.job.url)} : LogoBackfill(logo)

LangSpec == LangInit /\ [][LangNext]_vars

----------------------------------------------------------------------------
(* The media specification: process_urls, with the recency filter and the *)
(* store off, on one single-article page on which the strategies find *)
(* images and a logo. *)

AbsImage == Url("https", "cdn.com", <<"i.png">>, <<>>, "")

TrackedImage == [AbsImage EXCEPT !.query = <<<<"utm_source", "x">>>>,
                                 !.fragment = "frag"]

\* src="i.png"
RelativeImage == Url("", "", <<"i.png">>, <<>>, "")

\* src="//cdn.com/i.png"
SchemelessImage == Url("", "cdn.com", <<"i.png">>, <<>>, "")

ImagePool == {AbsImage, TrackedImage, RelativeImage, SchemelessImage}

ImageLists(n) == UNION {[1..m -> ImagePool] : m \in 0..n}

\* what the page names as its logo: nothing, the favicon, or the content of
\* a meta tag as the page wrote it
LogosOf(url) == {None, Favicon(url), TrackedImage, RelativeImage}

MediaResults(url, m) ==
    {None} \cup
    {WithImages(r, images) :
        r \in Results(url, m, {<<"b">>}, {None}, LogosOf(url)) \ {None},
        images \in ImageLists(MaxImages)}

MediaInit ==
    /\ urls = <<CleanUrl>>
    /\ ScraperInit
    /\ call = NoCall
    /\ ppc = "scrape"
    /\ max_age_days = 0
    /\ store_in_db = FALSE
    /\ recent = <<>>
    /\ enriched = <<>>
    /\ cursor = 0
    /\ log = {}

MediaNext ==
    \/ ScrapeUrlsEnter
    \/ \E o \in InitOutcomes : InitBrowser(o)
    \/ \E i \in IdleSeeds : ScrapeUrlStart(i, [raises |-> FALSE, links |-> <<>>])
    \/ \E i \in Seeds : \E j \in JobsAt(i, "run") :
          \E r \in MediaResults(job[i][j].url, NextMethod(i, j)) :
             Attempt(i, j, r, "ok")
    \/ \E i \in Seeds : \E j \in JobsAt(i, "logo") :
          \E logo \in {None, Favicon(job[i][j].url)} : ExtractLogo(i, j, logo)
    \/ \E i \in Seeds : ScrapeUrlFinish(i)
    \/ ScrapeUrlsReturn
    \/ PipeFilter
    \/ \E summary \in {None, [text |-> "summary"]} :
          \E verdict \in {None} \cup Verdicts : PipeEnrich(summary, verdict)

MediaSpec == MediaInit /\ [][MediaNext]_vars

----------------------------------------------------------------------------
(* The chain specification: scrape_urls on one seed, a single article or a *)
(* listing, with every outcome of a strategy and of the logo lookup. *)

ChainInit ==
    /\ urls \in Batches(1)
    /\ ScraperInit
    /\ PipelineOff
    /\ call = NoCall

ChainNext ==
    \/ ScrapeUrlsEnter
    \/ \E o \in InitOutcomes : InitBrowser(o)
    \/ \E i \in IdleSeeds : \E d \in DiscoveryWithTwin(MaxLinks) :
          ScrapeUrlStart(i, d)
    \/ \E i \in Seeds : \E j \in JobsAt(i, "run") :
          \E r \in Results(job[i][j].url, NextMethod(i, j), Bodies, {None},
                           {None, Favicon(job[i][j].url)}) :
             Attempt(i, j, r, "ok")
    \/ \E i \in Seeds : \E j \in JobsAt(i, "run") : Hang(i, j)
    \/ \E i \in Seeds : \E j \in JobsAt(i, "logo") :
          \E logo \in {None, Favicon(job[i][j].url)} : ExtractLogo(i, j, logo)
    \/ \E i \in Seeds : ScrapeUrlFinish(i)
    \/ ScrapeUrlsReturn

ChainSpec == ChainInit /\ [][ChainNext]_vars

\* the batch specification with the scheduling of the event loop: a step
\* that can be taken is taken
LiveSpec == Spec /\ WF_vars(Next)

----------------------------------------------------------------------------
(* The utilities specification: the functions of app/utils called on their *)
(* own, normalize_url also on the URL it returned. *)

\* a string on which urlparse raises ValueError, with the components a
\* reader sees in it
Malformed(url) == [url EXCEPT !.malformed = TRUE]

QueryKeys == {"a", "b", "utm_source", "utm_id"}

QueryValues == {"", "1"}

\* the key=value pairs of the query strings: plain ones, a percent-encoded
\* value and a percent-encoded key
QueryPairs ==
    (QueryKeys \X QueryValues) \cup {<<"a", "x%20y">>, <<"utm%5Fsource", "1">>}

Queries(n) == UNION {[1..m -> QueryPairs] : m \in 0..n}

\* URL strings without a query: absolute with and without a fragment, with
\* another scheme, without a scheme ("//a.com/p"), without a host, relative,
\* and one with an unbalanced bracket ("https://[::1/p#frag")
UrlHeads ==
    {Url("https", "a.com", <<"p">>, <<>>, ""),
     Url("https", "a.com", <<"p">>, <<>>, "frag"),
     Url("ftp", "a.com", <<"p">>, <<>>, ""),
     Url("", "a.com", <<"p">>, <<>>, ""),
     Url("https", "", <<"p">>, <<>>, ""),
     Url("", "", <<"p">>, <<>>, ""),
     Malformed(Url("https", "[::1", <<"p">>, <<>>, "frag"))}

UrlInputs(n) ==
    {EmptyStr} \cup {[h EXCEPT !.query = q] : h \in UrlHeads, q \in Queries(n)}

\* the frame of normalize_url(url) before the call
NormalizeCall(url) ==
    [fn |-> "normalize_url", pc |-> "call", arg |-> url, ret |-> None,
     again |-> None]

\* normalize_url(call.arg) runs and returns; it catches every Exception
NormalizeUrl ==
    /\ call.fn = "normalize_url"
    /\ call.pc = "call"
    /\ call' = [call EXCEPT !.ret = normalize_url(call.arg),
                            !.pc = "returned"]
    /\ UNCHANGED <<urls, scraperVars, errors, pipeVars>>

\* the URL that was returned is passed through normalize_url once more
NormalizeUrlAgain ==
    /\ call.fn = "normalize_url"
    /\ call.pc = "returned"
    /\ call.ret # None
    /\ call' = [call EXCEPT !.again = normalize_url(call.ret),
                            !.pc = "renormalized"]
    /\ UNCHANGED <<urls, scraperVars, errors, pipeVars>>

\* the date strings written with the numbers a and b, in the year 2023: the
\* shapes of the formats, a time with a UTC offset, a date inside other
\* text, and text without a date
DateTexts(a, b) ==
    LET Y == Num(2023, 4)
        A == Num(a, 2)
        B == Num(b, 2)
        ymd == <<Y, Lit("-"), A, Lit("-"), B>>
        hm == <<Num(10, 2), Lit(":"), Num(30, 2)>>
        hms == hm \o <<Lit(":"), Num(0, 2)>>
    IN  {ymd,
         ymd \o <<Lit("T")>> \o hms,
         ymd \o <<Lit("T")>> \o hms \o <<Lit("."), Num(123, 3)>>,
         ymd \o <<Lit("T")>> \o hms \o <<Lit("Z")>>,
         ymd \o <<Lit("T")>> \o hms \o <<Lit("."), Num(123, 3), Lit("Z")>>,
         ymd \o <<Lit("T")>> \o hm,
         ymd \o <<Lit(" ")>> \o hms,
         ymd \o <<Lit(" ")>> \o hm,
         ymd \o <<Lit("T")>> \o hms \o <<Lit("+"), Num(0, 2), Lit(":"), Num(0, 2)>>,
         <<A, Lit("/"), B, Lit("/"), Y>>,
         <<A, Lit("-"), B, Lit("-"), Y>>,
         <<Y, Lit("/"), A, Lit("/"), B>>,
         <<Lit("January"), Lit(" "), B, Lit(","), Lit(" "), Y>>,
         <<B, Lit(" "), Lit("January"), Lit(" "), Y>>,
         <<Lit("x"), Lit(" ")>> \o ymd \o <<Lit(" "), Lit("x")>>,
         <<Lit("x")>>,
         <<>>}

DateInputs(most) == UNION {DateTexts(a, b) : a, b \in 1..most}

\* the frame of parse_date(date_str) before the call
ParseDateCall(text) ==
    [fn |-> "parse_date", pc |-> "call", arg |-> [text |-> text, age |-> 0],
     ret |-> None, again |-> None]

\* parse_date(call.arg) runs and returns
ParseDate ==
    /\ call.fn = "parse_date"
    /\ call.pc = "call"
    /\ call' = [call EXCEPT !.ret = parse_date(call.arg), !.pc = "returned"]
    /\ UNCHANGED <<urls, scraperVars, errors, pipeVars>>

UtilInit ==
    /\ urls = <<>>
    /\ ScraperInit
    /\ PipelineOff
    /\ \/ \E url \in UrlInputs(MaxQuery) : call = NormalizeCall(url)
       \/ \E text \in DateInputs(MaxNumber) : call = ParseDateCall(text)

UtilNext ==
    \/ NormalizeUrl
    \/ NormalizeUrlAgain
    \/ ParseDate

UtilSpec == UtilInit /\ [][UtilNext]_vars

----------------------------------------------------------------------------
(* Properties of Scraper.scrape_urls *)

NoListing == \A i \in Seeds : ~seed[i].listing

EntryUrls == [k \in 1..Len(articles) |-> articles[k].url]
             \o [k \in 1..Len(errors) |-> errors[k].url]

\* C1: in a batch without a listing page every input URL yields exactly one
\* entry, a result or an error, so that results and errors together hold as
\* many entries as the batch has URLs.
C1_OneEntryPerUrl ==
    (spc = "returned" /\ NoListing) =>
        /\ \A i \in Seeds : Len(seed[i].articles) + Len(seed[i].errors) = 1
        /\ Len(articles) + Len(errors) = Len(urls)

\* C2: a listing seed with K sub-articles returns exactly K entries, one
\* result or one error per sub-article keyed by the sub-article's URL, and
\* no entry for the listing URL itself.
C2_OneEntryPerSubArticle ==
    \A i \in Seeds :
        (seed[i].pc = "done" /\ seed[i].listing) =>
            /\ Len(seed[i].articles) + Len(seed[i].errors) = seed[i].n
            /\ \A j \in 1..seed[i].n :
                  Cardinality(
                     {k \in 1..Len(seed[i].articles) :
                         seed[i].articles[k].url = job[i][j].url}
                     \cup {-k : k \in {k \in 1..Len(seed[i].errors) :
                         seed[i].errors[k].url = job[i][j].url}}) = 1
            /\ \A e \in Range(seed[i].errors) : e.url # urls[i]

\* the tasks other than (i, j) that have been started
Siblings(i, j) ==
    UNION {{<<a, b>> : b \in JobsOf(a)} : a \in Seeds} \ {<<i, j>>}

\* C5: a failing or slow task changes nothing for its siblings: a step of
\* one _scrape_article call leaves every other started call as it was, every
\* call that succeeded is in the results of its seed and of the batch, and a
\* listing gets no error entry for its own URL.
C5_SiblingsUnaffected ==
    /\ [](\A i \in Seeds :
            seed[i].pc = "done" =>
               /\ \A j \in JobsOf(i) :
                     job[i][j].art # None =>
                        /\ job[i][j].art \in Range(seed[i].articles)
                        /\ spc = "returned" => job[i][j].art \in Range(articles)
               /\ seed[i].listing =>
                     \A e \in Range(seed[i].errors) : e.url # urls[i])
    /\ [][\A i \in Seeds : \A j \in JobsOf(i) :
            job'[i][j] # job[i][j] =>
               \A p \in Siblings(i, j) : job'[p[1]][p[2]] = job[p[1]][p[2]]]_vars

\* a listing returned one sub-article's result although the other failed
C5_Witness ==
    /\ spc = "returned"
    /\ \E i \in Seeds : \E j, k \in JobsOf(i) :
          /\ seed[i].listing
          /\ job[i][j].art = None
          /\ job[i][k].art # None
          /\ job[i][k].art \in Range(articles)

\* C6: the strategies are attempted in one fixed order with playwright last,
\* each at most once; the first usable result is returned and nothing is
\* attempted after it; the call fails only after the last strategy; a usable
\* result of playwright after four failures is returned with no error.
C6_ChainOrder ==
    \A i \in Seeds : \A j \in JobsOf(i) :
        LET t == job[i][j].tried
            order == <<"newspaper", "trafilatura", "goose", "readability",
                       "playwright">>
            returned == job[i][j].pc \in {"logo", "done"}
        IN  /\ Len(t) <= 5
            /\ \A k \in 1..Len(t) : t[k].method = order[k]
            /\ \A k \in 1..(Len(t) - 1) : ~Truthy(t[k].body)
            /\ (returned /\ job[i][j].art # None) =>
                  /\ Truthy(t[Len(t)].body)
                  /\ job[i][j].art.content = t[Len(t)].body
            /\ (returned /\ job[i][j].art = None) =>
                  (Len(t) = 5 /\ ~Truthy(t[5].body))
            /\ (Len(t) > 0 /\ Truthy(t[Len(t)].body)) =>
                  (returned /\ job[i][j].art # None)
            /\ (Len(t) = 5 /\ Truthy(t[5].body) /\ seed[i].pc = "done") =>
                  (job[i][j].art \in Range(seed[i].articles)
                   /\ seed[i].errors = <<>>)

\* four strategies failed, playwright's content was returned
C6_Witness ==
    \E i \in Seeds : \E j \in JobsOf(i) :
        /\ seed[i].pc = "done"
        /\ Len(job[i][j].tried) = 5
        /\ job[i][j].art # None
        /\ job[i][j].art \in Range(seed[i].articles)

\* C7: every article reported as successful has a body that is non-empty
\* after trimming whitespace.
C7_BodyNotBlank ==
    \A a \in Range(articles) : Strip(a.content) # <<>>

\* C8: a strategy that never completes is abandoned, so scrape_urls
\* eventually returns for every batch whose tasks were started.
C8_EventuallyReturns == (spc = "gather") ~> (spc = "returned")

\* C9: in a batch without a listing page the URL of every returned entry
\* equals one input URL, and every input URL is matched by exactly one entry.
C9_EntryUrlsAreInputs ==
    (spc = "returned" /\ NoListing) =>
        /\ Len(EntryUrls) = Len(urls)
        /\ \E f \in [Seeds -> Seeds] :
              /\ \A a, b \in Seeds : f[a] = f[b] => a = b
              /\ \A a \in Seeds : EntryUrls[f[a]] = urls[a]

----------------------------------------------------------------------------
(* Properties of the fan-out and of Pipeline.process_urls *)

\* the fields of a returned article that the scraper extracted
Base(r) == [url |-> r.url, content |-> r.content,
            publication_date |-> r.publication_date]

\* the article is among the returned results or has an error entry
Accounted(a) ==
    \/ \E r \in Range(enriched) : Base(r) = Base(a)
    \/ \E e \in Range(errors) : e.url = a.url

\* C3: whether the recency filter is on or off, every article the scraper
\* extracted is returned by process_urls as a result or as an error entry.
C3_CompletePartition ==
    ppc = "returned" => \A a \in Range(articles) : Accounted(a)

\* the publication date is readable and at most days old
NotOlderThan(a, days) ==
    /\ parse_date(a.publication_date) # None
    /\ a.publication_date.age <= days

\* C3 (amended): every extracted article that the recency filter keeps, or
\* every extracted article when the filter is off, is returned as a result or
\* as an error entry; an article the filter rejects is not among the results.
C3_PartitionOfKept ==
    ppc = "returned" =>
        \A a \in Range(articles) :
            IF max_age_days <= 0 \/ NotOlderThan(a, max_age_days)
            THEN Accounted(a)
            ELSE \A r \in Range(enriched) : Base(r) # Base(a)

\* the filter is on, an article exactly max_age_days old was returned and
\* another extracted article was rejected
C3_Witness ==
    /\ ppc = "returned"
    /\ max_age_days > 0
    /\ \E a \in Range(articles) :
          /\ parse_date(a.publication_date) # None
          /\ a.publication_date.age = max_age_days
          /\ Accounted(a)
    /\ \E a \in Range(articles) : ~Accounted(a)

\* C4: no exception escapes scrape_urls or process_urls, whichever
\* collaborator fails.
C4_NoExceptionEscapes == spc # "raised" /\ ppc # "raised"

\* C10: at most 10 sub-article extractions are started for a listing,
\* however many links were discovered.
C10_FanOutCapped ==
    \A i \in Seeds : Cardinality(JobsOf(i)) <= 10

\* more than 10 links were discovered and 10 extractions ran
C10_Witness ==
    \E i \in Seeds :
        /\ seed[i].found > 10
        /\ seed[i].pc = "done"
        /\ Cardinality(JobsOf(i)) = 10

----------------------------------------------------------------------------
(* Properties of the links and of the recorded URLs *)

\* C11: the sub-article calls started for one listing target pairwise
\* different normalized URLs.
C11_LinksDeduplicated ==
    \A i \in Seeds :
        seed[i].listing =>
            \A j, k \in JobsOf(i) :
                j # k => normalize_url(job[i][j].url) # normalize_url(job[i][k].url)

\* C12: a seed that normalisation rejects gets one error entry with the URL
\* as it was given and nothing else: newspaper.build is not called for it
\* and no _scrape_article call, hence no strategy and no logo lookup, is made.
C12_InvalidSeedRejected ==
    \A i \in Seeds :
        normalize_url(urls[i]) = None =>
            /\ job[i] = <<>>
            /\ ~seed[i].built
            /\ ~seed[i].listing
            /\ seed[i].pc \in {"idle", "done"}
            /\ seed[i].pc = "done" =>
                  /\ seed[i].articles = <<>>
                  /\ seed[i].errors = <<ErrorEntry(urls[i])>>
            /\ spc = "returned" =>
                  Cardinality({k \in 1..Len(errors) :
                                  errors[k] = ErrorEntry(urls[i])})
                  = Cardinality({k \in Seeds : urls[k] = urls[i]})

\* a batch has returned in which one seed was rejected and another one was
\* extracted
C12_Witness ==
    /\ spc = "returned"
    /\ \E i, k \in Seeds :
          /\ normalize_url(urls[i]) = None
          /\ ErrorEntry(urls[i]) \in Range(errors)
          /\ job[i] = <<>>
          /\ seed[k].built
          /\ job[k] # <<>>
          /\ articles # <<>>

----------------------------------------------------------------------------
(* Properties of normalize_url *)

\* normalize_url(call.arg) has returned
Normalized == call.fn = "normalize_url" /\ call.pc \in {"returned", "renormalized"}

\* the string parses to an absolute URL with scheme http or https and a host
IsAbsoluteHttp(url) ==
    /\ url # None
    /\ ~url.malformed
    /\ url.scheme \in {"http", "https"}
    /\ url.netloc # ""

\* the tracking deny-list as documented: every key utm_* and the named keys
DenyList ==
    {"utm_source", "utm_medium", "utm_campaign", "utm_term", "utm_content",
     "utm_id"}
    \cup {"fbclid", "gclid", "msclkid", "ref", "source", "referrer", "mc_cid",
          "mc_eid"}

\* the key-value pairs a query string denotes
Decoded(q) == [n \in 1..Len(q) |-> <<Unquote(q[n][1]), Unquote(q[n][2])>>]

DecodedKeys(q) == {Unquote(q[n][1]) : n \in 1..Len(q)}

\* C13: normalize_url returns None for every string that is not an
\* absolute http or https URL with a host, and an absolute URL without
\* fragment for every string that is one.
C13_RejectsNonHttp ==
    Normalized =>
        IF IsAbsoluteHttp(call.arg)
        THEN IsAbsoluteHttp(call.ret) /\ call.ret.fragment = ""
        ELSE call.ret = None

\* C14: when the query of the input has a key of the deny-list, the URL
\* normalize_url returns has no key of the deny-list and no fragment.
C14_NoTrackingKeyLeft ==
    (/\ Normalized
     /\ DecodedKeys(call.arg.query) \cap DenyList # {}
     /\ call.ret # None) =>
        /\ DecodedKeys(call.ret.query) \cap DenyList = {}
        /\ call.ret.fragment = ""

\* C15: for a valid absolute URL, normalising the URL normalize_url returned
\* gives that URL again.
C15_Idempotent ==
    (/\ call.fn = "normalize_url"
     /\ call.pc = "renormalized"
     /\ IsAbsoluteHttp(call.arg)) =>
        call.again = call.ret

\* a URL with a fragment and a percent-encoded value was normalised to a
\* different string, with the value re-encoded, and normalised again
C15_Witness ==
    /\ call.fn = "normalize_url"
    /\ call.pc = "renormalized"
    /\ IsAbsoluteHttp(call.arg)
    /\ call.arg.fragment # ""
    /\ Len(call.ret.query) = MaxQuery
    /\ <<"a", "x%20y">> \in Range(call.arg.query)
    /\ <<"a", "x+y">> \in Range(call.ret.query)
    /\ call.again = call.ret

\* the pairs of q whose key is not in the deny-list, in the order of q
Kept(q) == SelectSeqBy(q, {e \in Range(q) : e[1] \notin DenyList})

\* C16: the key-value pairs of the returned query are the pairs of the input
\* query without those of the deny-list, each as often as it occurred and in
\* the order of the input.
C16_QueryOrderKept ==
    (Normalized /\ call.ret # None /\ ~call.arg.malformed) =>
        Decoded(call.ret.query) = Kept(Decoded(call.arg.query))

\* C17: normalize_url does not raise, and it returns None for an input that
\* cannot be parsed.
C17_MalformedRejected ==
    /\ call.pc # "raised"
    /\ (Normalized /\ call.arg.malformed) => call.ret = None

----------------------------------------------------------------------------
(* Properties of the URLs of a returned article *)

\* the URL is absolute and has neither a deny-listed key nor a fragment
CleanAbsolute(url) ==
    /\ url.scheme # ""
    /\ url.netloc # ""
    /\ DecodedKeys(url.query) \cap DenyList = {}
    /\ url.fragment = ""

\* C18: in every article process_urls returns, each image URL and the logo
\* URL are absolute, without tracking parameter and without fragment, and the
\* image URLs are pairwise different.
C18_MediaUrlsClean ==
    ppc = "returned" =>
        \A r \in Range(enriched) :
            /\ \A n \in 1..Len(r.image_urls) : CleanAbsolute(r.image_urls[n])
            /\ r.logo_url # None => CleanAbsolute(r.logo_url)
            /\ \A m, n \in 1..Len(r.image_urls) :
                  r.image_urls[m] = r.image_urls[n] => m = n

\* C19: the URL recorded on a result, of a single page or of a sub-article
\* of a listing, is canonical: normalize_url returns it unchanged.
C19_ResultUrlCanonical ==
    /\ \A i \in Seeds : \A a \in Range(seed[i].articles) :
          normalize_url(a.url) = a.url
    /\ \A a \in Range(articles) : normalize_url(a.url) = a.url

----------------------------------------------------------------------------
(* Properties of parse_date *)

\* the formats, by their place in the list, that match the whole string and
\* give a date
MatchingFormats(text) ==
    {k \in 1..Len(formats) : strptime(text, formats[k]) # None}

\* the calendar fields of what parse_date returned
Civil(dt) ==
    [year |-> dt.year, month |-> dt.month, day |-> dt.day, hour |-> dt.hour,
     minute |-> dt.minute, second |-> dt.second]

SlashDate(a, b) ==
    <<Num(a, 2), Lit("/"), Num(b, 2), Lit("/"), Num(2023, 4)>>

\* "2023-01-15T10:30:00Z"
IsoZulu ==
    IsoText \o <<Lit("T"), Num(10, 2), Lit(":"), Num(30, 2), Lit(":"),
                 Num(0, 2), Lit("Z")>>

\* C20: parse_date returns the parse of the first format of its list that
\* matches the whole string and searches for a YYYY-MM-DD substring only when
\* none does; a slash date is read day first, so "15/01/2023" and
\* "2023-01-15T10:30:00Z" are both 15 January 2023, and a string with neither
\* a matching format nor such a substring gives None.
C20_FirstFormatWins ==
    (call.fn = "parse_date" /\ call.pc = "returned") =>
        LET text == call.arg.text
            hits == MatchingFormats(text)
        IN  /\ hits # {} =>
                  /\ call.ret # None
                  /\ \E k \in hits :
                        /\ \A h \in hits : k <= h
                        /\ Civil(call.ret) = strptime(text, formats[k])
            /\ (hits = {} /\ call.ret # None) =>
                  /\ YmdAt(text) # {}
                  /\ Civil(call.ret) = SearchYmd(text)
            /\ (hits = {} /\ YmdAt(text) = {}) => call.ret = None
            /\ \A a, b \in 1..12 :
                  text = SlashDate(a, b) =>
                     call.ret.day = a /\ call.ret.month = b
            /\ text \in {SlashDate(15, 1), IsoZulu} =>
                  /\ call.ret.year = 2023
                  /\ call.ret.month = 1
                  /\ call.ret.day = 15

\* "01/02/2023", which both slash formats match, was read as 1 February
C20_Witness ==
    /\ call.fn = "parse_date"
    /\ call.pc = "returned"
    /\ call.arg.text = SlashDate(1, 2)
    /\ {9, 10} \subseteq MatchingFormats(call.arg.text)
    /\ call.ret.day = 1
    /\ call.ret.month = 2

----------------------------------------------------------------------------
(* Properties of the stages of Pipeline.process_urls *)

\* the articles with a date that parses and is at most days old, in the
\* order of arts
RecentOf(arts, days) ==
    SelectSeqBy(arts, {a \in Range(arts) : NotOlderThan(a, days)})

\* C21: the recency filter keeps, in input order, exactly the articles whose
\* publication date parses and is not older than max_age_days, and
\* process_urls applies it only when max_age_days > 0.
C21_FilterExact ==
    ppc \in {"enrich", "store", "returned"} =>
        recent = IF max_age_days > 0 THEN RecentOf(articles, max_age_days)
                 ELSE articles

\* the filter kept two different articles, or dropped an article with an
\* unreadable date and kept the one after it
C21_Witness ==
    /\ ppc = "returned"
    /\ max_age_days > 0
    /\ Len(articles) = 2
    /\ \/ recent = articles /\ articles[1] # articles[2]
       \/ /\ articles[1].publication_date = DateStr(FALSE, 0)
          /\ recent = <<articles[2]>>

----------------------------------------------------------------------------
(* Properties of the enrichment and store stages of process_urls *)

\* the enricher named what logged an error for the article at index k
Failed(k, what) == <<k, what>> \in log

\* C22: an article whose summariser or fake-news detector failed is still
\* among the results of process_urls, with what the scraper extracted, and
\* the field of the failed enricher is absent (None); the errors are those
\* of the scraper and no more.
C22_FailedFieldAbsent ==
    ppc \in {"store", "returned"} =>
        /\ Len(enriched) = Len(recent)
        /\ Len(errors) = SumSeq([i \in 1..Len(urls) |-> Len(seed[i].errors)])
        /\ \A k \in 1..Len(enriched) :
              /\ Base(enriched[k]) = Base(recent[k])
              /\ Failed(k, "summary") => enriched[k].summary = None
              /\ Failed(k, "fake_news") =>
                    /\ enriched[k].is_fake_news = None
                    /\ enriched[k].confidence_score = None

\* the article as process_urls returns it when nothing was handed to
\* store_article
Unstamped(r) == [r EXCEPT !.scraped_at = None, !._id = None]

\* C23: the list process_urls returns is the one it returns with storage
\* disabled, whether store_article succeeds or fails.
C23_SameListWithoutStore ==
    ppc = "returned" =>
        enriched = [k \in 1..Len(enriched) |-> Unstamped(enriched[k])]

\* C23 (amended): a store_article call, succeeding or failing, removes no
\* article from the list process_urls returns, keeps the order and changes
\* nothing of an article but _id and scraped_at; these two are set on every
\* returned article when storage is enabled, whatever the outcome of the
\* write, and on none when it is disabled.
C23_StoreOnlyStamps ==
    /\ [](ppc = "returned" =>
            /\ Len(enriched) = Len(recent)
            /\ \A k \in 1..Len(enriched) :
                  /\ (enriched[k]._id # None) = store_in_db
                  /\ (enriched[k].scraped_at # None) = store_in_db)
    /\ [][ppc = "store" =>
            /\ Len(enriched') = Len(enriched)
            /\ \A k \in 1..Len(enriched) :
                  Unstamped(enriched'[k]) = Unstamped(enriched[k])]_vars

\* storage is enabled, the first article's write failed, the second one's
\* succeeded, and both articles are returned, in the order of the batch
C23_Witness ==
    /\ ppc = "returned"
    /\ store_in_db
    /\ Len(enriched) = 2
    /\ Failed(1, "store")
    /\ ~Failed(2, "store")
    /\ enriched[1].url = normalize_url(urls[1])
    /\ enriched[2].url = normalize_url(urls[2])
    /\ enriched[1].url # enriched[2].url
    /\ enriched[1].summary # None

----------------------------------------------------------------------------
(* Properties of the POST /scrape endpoint *)

\* C24: a request with an empty URL list is answered with status 400 and the
\* detail "No URLs provided", and process_urls is never called for it.
C24_EmptyListRejected ==
    (call.fn = "scrape_urls" /\ urls = <<>>) =>
        /\ ppc = "off"
        /\ spc = "call"
        /\ call.response \in {None, HttpError(400, "No URLs provided")}
        /\ call.pc = "done" => call.response # None

----------------------------------------------------------------------------
(* Properties of the listing test and of the browser *)

\* C25: a page is taken for a listing exactly when newspaper.build reported
\* more than one article URL for it; with no link or one link it is a single
\* article and the (normalised) seed URL itself goes through the strategy
\* chain, once.
C25_ListingIffSeveral ==
    \A i \in Seeds :
        job[i] # <<>> =>
            /\ seed[i].listing <=> seed[i].found > 1
            /\ ~seed[i].listing =>
                  /\ Len(job[i]) = 1
                  /\ job[i][1].url = normalize_url(urls[i])
            /\ seed[i].listing =>
                  /\ Len(job[i]) = Min(seed[i].found, FanOutCap)
                  /\ \A j \in JobsOf(i) : job[i][j].url # normalize_url(urls[i])

\* the page linked exactly one article: it was taken for a single article
\* and the seed went through the chain
C25_Witness ==
    \E i \in Seeds :
        /\ seed[i].found = 1
        /\ ~seed[i].listing
        /\ seed[i].pc = "done"
        /\ Len(job[i]) = 1
        /\ job[i][1].url = normalize_url(urls[i])
        /\ job[i][1].tried # <<>>

\* C26: a seed that passed normalisation goes on through the strategy chain
\* whatever newspaper.build did, also when it failed or found nothing, and a
\* failure of newspaper.build alone leaves no error entry for the seed.
C26_DiscoveryFailureTolerated ==
    \A i \in Seeds :
        (seed[i].built /\ seed[i].pc # "idle") =>
            /\ job[i] # <<>>
            /\ seed[i].errors = <<>>

\* the _scrape_article call j of seed i has got as far as the playwright
\* strategy
ReachedRendered(i, j) ==
    \/ \E k \in 1..Len(job[i][j].tried) :
          job[i][j].tried[k].method = "playwright"
    \/ job[i][j].pc = "run" /\ NextMethod(i, j) = "playwright"

\* C27: the driver and the browser are started only once a URL of the batch
\* has reached the playwright strategy.
C27_BrowserStartedLazily ==
    (browser # "none" \/ playwright # "none") =>
        \E i \in Seeds : \E j \in JobsOf(i) : ReachedRendered(i, j)

\* C28: whatever calls run concurrently on one Scraper, at most one driver
\* and at most one browser are running at any time, and once close() has
\* returned none is.
C28_OneBrowser ==
    /\ proc.drivers <= 1
    /\ proc.browsers <= 1
    /\ (call.fn = "close" /\ call.pc = "done") => proc = NoProc

C30_AfterSuccessOnly ==
    call.fn = "_scrape_article" =>
        LET tried == call.job.tried
        IN  /\ \A k \in 1..Len(tried) :
                  ~Truthy(tried[k].body) => ~call.languages[k].asked
            /\ call.logo_calls <= 1
            /\ call.logo_calls = 1 =>
                  /\ call.job.pc = "done"
                  /\ call.job.art # None
                  /\ Truthy(tried[Len(tried)].body)
            /\ (call.job.pc = "done" /\ call.job.art # None
                    /\ call.logo_calls = 0) =>
                  call.job.art.logo_url # None

====
